---- MODULE Spec2Model ----
(***************************************************************************)
(* A model of uid2_client: the EncryptionKeysCollection index (keys.py)    *)
(* and the Uid2Client request/response envelope and key refresh            *)
(* (client.py).                                                            *)
(*                                                                         *)
(* Python values are represented as follows.  An optional value is a       *)
(* sequence of length at most one: <<>> is None and <<v>> is v.  A         *)
(* datetime is the integer number of seconds of its UTC instant.  A call   *)
(* ends in a record [kind, val]: kind "return" carries the returned value, *)
(* kind "raise" carries the name of the exception.                         *)
(***************************************************************************)
EXTENDS Integers, Sequences, FiniteSets, TLC

\* A collection and its caller: the batch it was built from, the object, the
\* call in progress and its outcome.
VARIABLES batch, coll, op, ret

\* A client in refresh_keys or refresh_json: the position of the call, the
\* nonce and request of _make_v2_request, the response on the wire and what the
\* responder put in it, the outcome of _parse_v2_response and of the call,
\* and the requests built and sent by the call.
VARIABLES pc, api, nonceHeld, req, wire, srv, decoded, result, built, sent

\* The collections built so far, each as it was when its constructor returned,
\* and a lookup some reader made earlier.
VARIABLES heap, snapshots, seen

keysVars == <<batch, coll, op, ret>>

sharedVars == <<heap, snapshots, seen>>

clientVars == <<pc, api, nonceHeld, req, wire, srv, decoded, result, built, sent>>

vars == <<keysVars, clientVars, sharedVars>>

\* ------------------------------------------------------------- bounds
\* Longest batch of keys handed to the collection's constructor.
MaxBatch == 2

\* Instants range over 0..MaxTime.
MaxTime == 3

KeyIds == {1, 2}

\* Site ids of keys: 0 for a key that belongs to no site, 1 for a site.
SiteIds == {0, 1}

Times == 0..MaxTime

\* Arguments of the lookups: ids and sites that occur in batches and some that do not.
QueryKeyIds == KeyIds \cup {3}

QuerySiteIds == SiteIds \cup {-1, 2}

QueryTimes == Times

None == <<>>

Some(x) == <<x>>

Return(v) == [kind |-> "return", val |-> v]

Raise(e) == [kind |-> "raise", val |-> e]

NoCall == [kind |-> "none", val |-> None]

\* ------------------------------------------------------------- keys.py
EncryptionKey(key_id, site_id, created, activates, expires, secret) ==
    [key_id |-> key_id, site_id |-> site_id, created |-> created,
     activates |-> activates, expires |-> expires, secret |-> secret]

is_active(key, now) == key.activates <= now /\ now < key.expires

\* list.sort(key=lambda x: x.activates): a stable sort; insertion of each
\* element after the elements that do not activate later.
RECURSIVE InsertByActivates(_, _)
InsertByActivates(sorted, key) ==
    IF sorted = <<>> THEN <<key>>
    ELSE IF sorted[Len(sorted)].activates <= key.activates
         THEN Append(sorted, key)
         ELSE Append(InsertByActivates(SubSeq(sorted, 1, Len(sorted) - 1), key),
                     sorted[Len(sorted)])

RECURSIVE SortByActivates(_)
SortByActivates(keys) ==
    IF keys = <<>> THEN <<>>
    ELSE InsertByActivates(SortByActivates(SubSeq(keys, 1, Len(keys) - 1)),
                           keys[Len(keys)])

\* self._keys[key.key_id] = key
IndexById(keys_by_id, key) ==
    [i \in DOMAIN keys_by_id \cup {key.key_id} |->
        IF i = key.key_id THEN key ELSE keys_by_id[i]]

\* A site index that also takes keys of site 0.
IndexBySiteFromZero(keys_by_site, key) ==
    IF key.site_id >= 0
    THEN [s \in DOMAIN keys_by_site \cup {key.site_id} |->
             IF s = key.site_id
             THEN IF s \in DOMAIN keys_by_site
                  THEN Append(keys_by_site[s], key)
                  ELSE <<key>>
             ELSE keys_by_site[s]]
    ELSE keys_by_site

\* if key.site_id > 0: self._keys_by_site.setdefault(key.site_id, []).append(key)
IndexBySite(keys_by_site, key) ==
    IF key.site_id > 0
    THEN [s \in DOMAIN keys_by_site \cup {key.site_id} |->
             IF s = key.site_id
             THEN IF s \in DOMAIN keys_by_site
                  THEN Append(keys_by_site[s], key)
                  ELSE <<key>>
             ELSE keys_by_site[s]]
    ELSE keys_by_site

\* A latest expiry that keeps the first key's expiry.
LatestExpiresFirst(latest_expires, key) ==
    IF latest_expires = None
    THEN Some(key.expires)
    ELSE latest_expires

\* if self._latest_expires is None or key.expires > self._latest_expires: ...
LatestExpires(latest_expires, key) ==
    IF latest_expires = None \/ key.expires > latest_expires[1]
    THEN Some(key.expires)
    ELSE latest_expires

\* The first loop of __init__, one iteration: the object after ingesting key.
Ingest(self, key) ==
    [_keys |-> IndexById(self._keys, key),
     _keys_by_site |-> IndexBySite(self._keys_by_site, key),
     _latest_expires |-> LatestExpires(self._latest_expires, key)]

RECURSIVE IngestAll(_, _)
IngestAll(self, keys) ==
    IF keys = <<>> THEN self
    ELSE Ingest(IngestAll(self, SubSeq(keys, 1, Len(keys) - 1)), keys[Len(keys)])

EmptyCollection ==
    [_keys |-> <<>>, _keys_by_site |-> <<>>, _latest_expires |-> None]

\* EncryptionKeysCollection.__init__(keys)
EncryptionKeysCollection(keys) ==
    LET filled == IngestAll(EmptyCollection, keys)
    IN  [filled EXCEPT !._keys_by_site =
            [s \in DOMAIN filled._keys_by_site |->
                SortByActivates(filled._keys_by_site[s])]]

\* _SiteKeyActivatesList.__getitem__, 0-based as in the source.
SiteKeyActivates(site_keys, i) == site_keys[i + 1].activates

\* bisect.bisect_right(_SiteKeyActivatesList(site_keys), now), between lo and hi.
RECURSIVE bisect_right(_, _, _, _)
bisect_right(site_keys, now, lo, hi) ==
    IF lo < hi
    THEN LET mid == (lo + hi) \div 2
         IN  IF now < SiteKeyActivates(site_keys, mid)
             THEN bisect_right(site_keys, now, lo, mid)
             ELSE bisect_right(site_keys, now, mid + 1, hi)
    ELSE lo

\* A walk that trusts the candidate the search found and never steps further back.
WalkBackOnce(site_keys, now, i) ==
    IF i > 0 /\ is_active(site_keys[i], now)
    THEN Some(site_keys[i])
    ELSE None

\* The while loop of get_active_site_key, entered with index i.
RECURSIVE WalkBack(_, _, _)
WalkBack(site_keys, now, i) ==
    IF i > 0
    THEN IF is_active(site_keys[i], now)
         THEN Some(site_keys[i])
         ELSE WalkBack(site_keys, now, i - 1)
    ELSE None

get_active_site_key(self, site_id, now) ==
    IF site_id \notin DOMAIN self._keys_by_site
    THEN Return(None)
    ELSE LET site_keys == self._keys_by_site[site_id]
         IN  IF Len(site_keys) = 0
             THEN Return(None)
             ELSE Return(WalkBack(site_keys, now,
                                  bisect_right(site_keys, now, 0, Len(site_keys))))

valid(self, now) ==
    Return(self._latest_expires # None /\ self._latest_expires[1] > now)

len(self) == Return(Cardinality(DOMAIN self._keys))

contains(self, key_id) == Return(key_id \in DOMAIN self._keys)

getitem(self, key_id) ==
    IF key_id \in DOMAIN self._keys
    THEN Return(self._keys[key_id])
    ELSE Raise("KeyError")

\* A get that indexes the dictionary.
getStrict(self, key_id, default) ==
    IF key_id \in DOMAIN self._keys
    THEN Return(Some(self._keys[key_id]))
    ELSE Raise("KeyError")

get(self, key_id, default) ==
    IF key_id \in DOMAIN self._keys
    THEN Return(Some(self._keys[key_id]))
    ELSE Return(default)

key_ids(self) == Return(DOMAIN self._keys)

values(self) == Return({self._keys[i] : i \in DOMAIN self._keys})

\* ------------------------------------------------------------- bytes
\* Python's s[lo:hi] on a sequence: 0-based, half-open, clamped to the length.
Slice(s, lo, hi) ==
    IF lo >= Len(s) \/ hi <= lo THEN <<>>
    ELSE SubSeq(s, lo + 1, IF hi < Len(s) THEN hi ELSE Len(s))

\* int.to_bytes(n, length, 'big')
RECURSIVE ToBytes(_, _)
ToBytes(n, length) ==
    IF length = 0 THEN <<>>
    ELSE Append(ToBytes(n \div 256, length - 1), n % 256)

\* Base64 text is a sequence of alphabet indices 0..63; Pad is the '=' sign.
Pad == 64

\* base64.b64encode
RECURSIVE B64Encode(_)
B64Encode(bs) ==
    IF Len(bs) = 0 THEN <<>>
    ELSE IF Len(bs) = 1
         THEN <<bs[1] \div 4, (bs[1] % 4) * 16, Pad, Pad>>
    ELSE IF Len(bs) = 2
         THEN <<bs[1] \div 4, (bs[1] % 4) * 16 + bs[2] \div 16, (bs[2] % 16) * 4, Pad>>
    ELSE <<bs[1] \div 4, (bs[1] % 4) * 16 + bs[2] \div 16,
           (bs[2] % 16) * 4 + bs[3] \div 64, bs[3] % 64>>
         \o B64Encode(SubSeq(bs, 4, Len(bs)))

\* base64.b64decode accepts the text: whole groups of four, padding only at the end.
B64Valid(cs) ==
    /\ Len(cs) % 4 = 0
    /\ \A i \in 1..Len(cs) :
          cs[i] = Pad => /\ i > Len(cs) - 2
                         /\ cs[Len(cs)] = Pad

\* base64.b64decode of an accepted text.
RECURSIVE B64Bytes(_)
B64Bytes(cs) ==
    IF Len(cs) = 0 THEN <<>>
    ELSE LET b1 == cs[1] * 4 + cs[2] \div 16
             b2 == (cs[2] % 16) * 16 + cs[3] \div 4
             b3 == (cs[3] % 4) * 64 + cs[4]
         IN  IF cs[3] = Pad THEN <<b1>>
             ELSE IF cs[4] = Pad THEN <<b1, b2>>
             ELSE <<b1, b2, b3>> \o B64Bytes(SubSeq(cs, 5, Len(cs)))

\* ------------------------------------------------------------- encryption
\* The AEAD of the envelope: iv || ciphertext || tag, a fresh iv per call and no
\* associated data.  The cipher adds a keystream drawn from the secret and the
\* iv to the data; the tag is a keyed checksum of the iv and the ciphertext.
IVLen == 12

TagLen == 16

KeyStream(secret, iv, i) ==
    (secret[((i - 1) % Len(secret)) + 1] + iv[((i - 1) % Len(iv)) + 1] + i) % 256

RECURSIVE Mac(_, _)
Mac(bs, h) ==
    IF bs = <<>> THEN h
    ELSE Mac(Tail(bs), (h * 257 + Head(bs) + 1) % 65521)

Tag(secret, iv, ct) == ToBytes(Mac(secret \o iv \o ct, 0), TagLen)

encrypt_gcm(data, iv, secret) ==
    LET ct == [i \in 1..Len(data) |-> (data[i] + KeyStream(secret, iv, i)) % 256]
    IN  iv \o ct \o Tag(secret, iv, ct)

decrypt_gcm(encrypted, secret) ==
    LET n == Len(encrypted)
        iv == Slice(encrypted, 0, IVLen)
        ct == Slice(encrypted, IVLen, n - TagLen)
        tag == Slice(encrypted, n - TagLen, n)
    IN  IF n < IVLen + TagLen \/ tag # Tag(secret, iv, ct)
        THEN Raise("DecryptError")
        ELSE Return([i \in 1..Len(ct) |->
                        (ct[i] + 256 - KeyStream(secret, iv, i)) % 256])

\* ------------------------------------------------------------- client.py
\* A request that puts the nonce before the timestamp.
make_v2_request_swapped(now, nonce, iv, secret) ==
    LET payload == nonce \o ToBytes(now, 8)
        envelope == ToBytes(1, 1) \o encrypt_gcm(payload, iv, secret)
    IN  <<B64Encode(envelope), nonce>>

\* Uid2Client._make_v2_request(now); now in milliseconds, nonce the value of
\* os.urandom(8), iv the random iv the encryption draws.
make_v2_request(now, nonce, iv, secret) ==
    LET payload == ToBytes(now, 8) \o nonce
        envelope == ToBytes(1, 1) \o encrypt_gcm(payload, iv, secret)
    IN  <<B64Encode(envelope), nonce>>

\* A response check that compares the nonce with the first eight bytes.
parse_v2_response_first8(encrypted, nonce, secret) ==
    IF ~B64Valid(encrypted) THEN Raise("binascii.Error")
    ELSE LET payload == decrypt_gcm(B64Bytes(encrypted), secret)
         IN  IF payload.kind = "raise" THEN payload
             ELSE IF nonce # Slice(payload.val, 0, 8)
                  THEN Raise("ValueError(nonce mismatch)")
                  ELSE Return(Slice(payload.val, 16, Len(payload.val)))

\* Uid2Client._parse_v2_response(encrypted, nonce)
parse_v2_response(encrypted, nonce, secret) ==
    IF ~B64Valid(encrypted) THEN Raise("binascii.Error")
    ELSE LET payload == decrypt_gcm(B64Bytes(encrypted), secret)
         IN  IF payload.kind = "raise" THEN payload
             ELSE IF nonce # Slice(payload.val, 8, 16)
                  THEN Raise("ValueError(nonce mismatch)")
                  ELSE Return(Slice(payload.val, 16, Len(payload.val)))

\* _make_dt(timestamp): the UTC instant of an epoch time in seconds; an instant
\* is represented by its epoch seconds, so the number is kept.
make_dt(timestamp) == timestamp

\* The call EncryptionKey(...) with positional arguments args, bound to
\* __init__(self, key_id, site_id, created, activates, expires, secret).
EncryptionKeyCall(args) ==
    IF Len(args) = 6
    THEN Return(EncryptionKey(args[1], args[2], args[3], args[4], args[5], args[6]))
    ELSE Raise("TypeError")

\* The call EncryptionKeysCollection(...) with positional arguments args, bound
\* to __init__(self, keys).
EncryptionKeysCollectionCall(args) ==
    IF Len(args) = 1
    THEN Return(EncryptionKeysCollection(args[1]))
    ELSE Raise("TypeError")

RequiredFields == {"id", "created", "activates", "expires", "secret"}

\* The body of the loop of _parse_keys_json: one record to one EncryptionKey.
ParseKey(key) ==
    IF \E f \in RequiredFields : f \notin DOMAIN key
    THEN Raise("KeyError")
    ELSE IF ~B64Valid(key.secret)
    THEN Raise("binascii.Error")
    ELSE EncryptionKeyCall(
            <<key.id,
              IF "site_id" \in DOMAIN key THEN key.site_id ELSE -1,
              make_dt(key.created),
              make_dt(key.activates),
              make_dt(key.expires),
              B64Bytes(key.secret),
              IF "keyset_id" \in DOMAIN key THEN Some(key.keyset_id) ELSE None>>)

\* The loop of _parse_keys_json from record i on, keys being the list so far.
RECURSIVE ParseKeys(_, _, _)
ParseKeys(records, i, keys) ==
    IF i > Len(records) THEN Return(keys)
    ELSE LET key == ParseKey(records[i])
         IN  IF key.kind = "raise" THEN key
             ELSE ParseKeys(records, i + 1, Append(keys, key.val))

\* Uid2Client._parse_keys_json(resp_body); resp_body is an optional dictionary.
parse_keys_json(resp_body) ==
    IF resp_body = None THEN Raise("TypeError")
    ELSE IF "keys" \notin DOMAIN resp_body[1] THEN Raise("KeyError")
    ELSE LET body == resp_body[1]
             keys == ParseKeys(body.keys, 1, <<>>)
         IN  IF keys.kind = "raise" THEN keys
             ELSE IF \E f \in {"caller_site_id", "master_keyset_id", "token_expiry_seconds"} :
                        f \notin DOMAIN body
             THEN Raise("KeyError")
             ELSE EncryptionKeysCollectionCall(
                     <<keys.val, body.caller_site_id, body.master_keyset_id,
                       IF "default_keyset_id" \in DOMAIN body
                       THEN Some(body.default_keyset_id) ELSE None,
                       body.token_expiry_seconds>>)

\* ------------------------------------------------------------- responses
\* A key record of a response, with every field.
KeyRecord(id, site_id, activates, expires) ==
    [id |-> id, site_id |-> site_id, created |-> 0, activates |-> activates,
     expires |-> expires, secret |-> B64Encode(<<id>>), keyset_id |-> 9]

Without(r, f) == [x \in DOMAIN r \ {f} |-> r[x]]

KeysBody(records) ==
    [keys |-> records, caller_site_id |-> 1, master_keyset_id |-> 1,
     default_keyset_id |-> 2, token_expiry_seconds |-> 3600]

\* The documents a response may carry: well-formed ones, then one per way of
\* being malformed.
Docs ==
    <<[body |-> KeysBody(<<KeyRecord(1, 1, 0, 2), KeyRecord(2, 1, 1, 3)>>)],
      [body |-> KeysBody(<<Without(Without(KeyRecord(1, 1, 0, 2), "site_id"), "keyset_id")>>)],
      [body |-> KeysBody(<<>>)],
      [body |-> KeysBody(<<Without(KeyRecord(1, 1, 0, 2), "id")>>)],
      [body |-> KeysBody(<<KeyRecord(2, 1, 1, 3), Without(KeyRecord(1, 1, 0, 2), "created")>>)],
      [body |-> KeysBody(<<Without(KeyRecord(1, 1, 0, 2), "activates")>>)],
      [body |-> KeysBody(<<Without(KeyRecord(1, 1, 0, 2), "expires")>>)],
      [body |-> KeysBody(<<Without(KeyRecord(1, 1, 0, 2), "secret")>>)],
      [body |-> Without(KeysBody(<<>>), "keys")],
      [status |-> "unauthorized"]>>

WellFormedDocs == {1, 2, 3}

\* The JSON text of document d is the single byte d; any other text is not JSON.
JsonTexts == {<<d>> : d \in DOMAIN Docs} \cup {<<>>}

\* json.loads
json_loads(text) ==
    IF Len(text) = 1 /\ text[1] \in DOMAIN Docs
    THEN Return(Docs[text[1]])
    ELSE Raise("JSONDecodeError")

\* A refresh that answers an error with an empty collection.
refresh_keys_receive_lenient(wire_bytes, nonce_sent, secret) ==
    LET payload == parse_v2_response(wire_bytes, nonce_sent, secret)
        doc == IF payload.kind = "raise" THEN payload ELSE json_loads(payload.val)
        coll_made == IF doc.kind = "raise" THEN doc
                     ELSE parse_keys_json(IF "body" \in DOMAIN doc.val
                                          THEN Some(doc.val.body) ELSE None)
    IN  IF coll_made.kind = "raise"
        THEN Return(EncryptionKeysCollection(<<>>))
        ELSE coll_made

\* Uid2Client.refresh_keys, from the response on: resp.read(), _parse_v2_response,
\* json.loads(...).get('body'), _parse_keys_json.
refresh_keys_receive(wire_bytes, nonce_sent, secret) ==
    LET payload == parse_v2_response(wire_bytes, nonce_sent, secret)
    IN  IF payload.kind = "raise" THEN payload
        ELSE LET doc == json_loads(payload.val)
             IN  IF doc.kind = "raise" THEN doc
                 ELSE parse_keys_json(IF "body" \in DOMAIN doc.val
                                      THEN Some(doc.val.body) ELSE None)

\* Uid2Client.refresh_json(json_str)
refresh_json(json_str) ==
    LET body == json_loads(json_str)
    IN  IF body.kind = "raise" THEN body
        ELSE IF "body" \notin DOMAIN body.val THEN Raise("KeyError")
        ELSE parse_keys_json(Some(body.val.body))

\* ------------------------------------------------------------- the client
\* The secret of the client, base64-decoded by __init__, and another secret.
ClientSecret == <<11, 200>>

OtherSecret == <<11, 201>>

NowMs == {0, 258}

Nonces == {ToBytes(n, 8) : n \in {0, 258, 66000}}

IVs == {ToBytes(n, IVLen) : n \in {5, 300}}

NoServer == [kind |-> "none", key |-> <<>>, nonce |-> <<>>, payload |-> <<>>]

InitClient ==
    /\ pc = "idle"
    /\ api = ""
    /\ nonceHeld = <<>>
    /\ req = <<>>
    /\ wire = <<>>
    /\ srv = NoServer
    /\ decoded = NoCall
    /\ result = NoCall
    /\ built = 0
    /\ sent = 0

\* refresh_keys up to the POST: the request is built and sent.
RefreshKeysSend ==
    /\ pc = "idle"
    /\ \E now \in NowMs, n \in Nonces, iv \in IVs :
          LET made == make_v2_request(now, n, iv, ClientSecret)
          IN  /\ req' = made[1]
              /\ nonceHeld' = made[2]
    /\ api' = "refresh_keys"
    /\ built' = built + 1
    /\ sent' = sent + 1
    /\ pc' = "sent"
    /\ UNCHANGED <<wire, srv, decoded, result, keysVars, sharedVars>>

Reply(bytes, how) ==
    /\ pc = "sent"
    /\ wire' = bytes
    /\ srv' = how
    /\ pc' = "replied"
    /\ UNCHANGED <<api, nonceHeld, req, decoded, result, built, sent, keysVars, sharedVars>>

\* A service answers: it encrypts a timestamp, a nonce and a payload under a secret.
ServerReply ==
    \E key \in {ClientSecret, OtherSecret}, n \in Nonces, text \in JsonTexts, iv \in IVs :
        Reply(B64Encode(encrypt_gcm(ToBytes(0, 8) \o n \o text, iv, key)),
              [kind |-> "server", key |-> key, nonce |-> n, payload |-> text])

\* The request comes back as the response, version marker included.
ReflectReply ==
    Reply(req, [NoServer EXCEPT !.kind = "reflect"])

\* The request comes back without its version marker.
StrippedReply ==
    Reply(B64Encode(Tail(B64Bytes(req))), [NoServer EXCEPT !.kind = "stripped"])

\* The response is no base64 text.
GarbageReply ==
    Reply(<<1, 2, 3>>, [NoServer EXCEPT !.kind = "garbage"])

\* urlopen raises: refresh_keys ends with the error.
NetworkError ==
    /\ pc = "sent"
    /\ result' = Raise("URLError")
    /\ srv' = [NoServer EXCEPT !.kind = "down"]
    /\ pc' = "done"
    /\ UNCHANGED <<api, nonceHeld, req, wire, decoded, built, sent, keysVars, sharedVars>>

\* refresh_keys from the response on.
RefreshKeysReceive ==
    /\ pc = "replied"
    /\ decoded' = parse_v2_response(wire, nonceHeld, ClientSecret)
    /\ result' = refresh_keys_receive(wire, nonceHeld, ClientSecret)
    /\ pc' = "done"
    /\ UNCHANGED <<api, nonceHeld, req, wire, srv, built, sent, keysVars, sharedVars>>

RefreshJson ==
    /\ pc = "idle"
    /\ \E text \in JsonTexts :
          /\ result' = refresh_json(text)
          /\ srv' = [NoServer EXCEPT !.kind = "json", !.payload = text]
    /\ api' = "refresh_json"
    /\ pc' = "done"
    /\ UNCHANGED <<nonceHeld, req, wire, decoded, built, sent, keysVars, sharedVars>>

\* The caller has the outcome of the call; the client is ready for the next call.
ClientReturned ==
    /\ pc = "done"
    /\ pc' = "idle"
    /\ api' = ""
    /\ nonceHeld' = <<>>
    /\ req' = <<>>
    /\ wire' = <<>>
    /\ srv' = NoServer
    /\ decoded' = NoCall
    /\ result' = NoCall
    /\ built' = 0
    /\ sent' = 0
    /\ UNCHANGED <<keysVars, sharedVars>>

NextClient ==
    \/ RefreshKeysSend
    \/ ServerReply
    \/ ReflectReply
    \/ StrippedReply
    \/ GarbageReply
    \/ NetworkError
    \/ RefreshKeysReceive
    \/ RefreshJson
    \/ ClientReturned

\* ------------------------------------------------------------- collections
KeyUniverse ==
    {EncryptionKey(i, s, 0, a, e, <<i>>) :
        i \in KeyIds, s \in SiteIds, a \in Times, e \in Times}

\* The keys a service issues: each has a non-empty activation window.
IssuedKeys == {k \in KeyUniverse : k.activates < k.expires}

Batches == UNION {[1..n -> IssuedKeys] : n \in 0..MaxBatch}

InitKeys ==
    /\ batch \in Batches
    /\ coll = EncryptionKeysCollection(batch)
    /\ op = <<>>
    /\ ret = NoCall

Call(o, r) ==
    /\ ret = NoCall
    /\ op' = o
    /\ ret' = r
    /\ UNCHANGED <<batch, coll, clientVars, sharedVars>>

CallLen == Call(<<"len">>, len(coll))

CallContains == \E k \in QueryKeyIds : Call(<<"contains", k>>, contains(coll, k))

CallGetItem == \E k \in QueryKeyIds : Call(<<"getitem", k>>, getitem(coll, k))

CallGet == \E k \in QueryKeyIds : Call(<<"get", k>>, get(coll, k, None))

CallKeyIds == Call(<<"key_ids">>, key_ids(coll))

CallValues == Call(<<"values">>, values(coll))

CallGetActiveSiteKey ==
    \E s \in QuerySiteIds, now \in QueryTimes :
        Call(<<"get_active_site_key", s, now>>, get_active_site_key(coll, s, now))

CallValid == \E now \in QueryTimes : Call(<<"valid", now>>, valid(coll, now))

\* The caller takes the result; the collection is ready for the next call.
Returned ==
    /\ ret # NoCall
    /\ op' = <<>>
    /\ ret' = NoCall
    /\ UNCHANGED <<batch, coll, clientVars, sharedVars>>

NextKeys ==
    \/ CallLen
    \/ CallContains
    \/ CallGetItem
    \/ CallGet
    \/ CallKeyIds
    \/ CallValues
    \/ CallGetActiveSiteKey
    \/ CallValid
    \/ Returned

\* ------------------------------------------------------------- shared collections
\* Most collections alive at once.
MaxColls == 2

\* An in-place construction: the new collection takes the place of the latest.
AllocateInPlace(objects, obj) ==
    IF objects = <<>> THEN <<obj>>
    ELSE [objects EXCEPT ![Len(objects)] = obj]

\* A constructor call makes a new object with dictionaries of its own.
Allocate(objects, obj) == Append(objects, obj)

SharedKeys ==
    {EncryptionKey(1, 1, 0, 0, 2, <<1>>), EncryptionKey(2, 1, 0, 1, 3, <<2>>)}

SharedBatches == UNION {[1..n -> SharedKeys] : n \in 0..MaxBatch}

SharedQueries ==
    {<<"get", k>> : k \in QueryKeyIds}
    \cup {<<"contains", k>> : k \in QueryKeyIds}
    \cup {<<"get_active_site_key", 1, now>> : now \in QueryTimes}
    \cup {<<"valid", now>> : now \in QueryTimes}
    \cup {<<"key_ids">>, <<"values">>}

Lookup(self, q) ==
    CASE q[1] = "get" -> get(self, q[2], None)
      [] q[1] = "contains" -> contains(self, q[2])
      [] q[1] = "get_active_site_key" -> get_active_site_key(self, q[2], q[3])
      [] q[1] = "valid" -> valid(self, q[2])
      [] q[1] = "key_ids" -> key_ids(self)
      [] q[1] = "values" -> values(self)

InitKeysIdle ==
    /\ batch = <<>>
    /\ coll = EncryptionKeysCollection(batch)
    /\ op = <<>>
    /\ ret = NoCall

InitShared ==
    /\ heap = <<>>
    /\ snapshots = <<>>
    /\ seen = None

\* The caller builds a collection from a batch of keys.
Construct ==
    /\ Len(snapshots) < MaxColls
    /\ \E b \in SharedBatches :
          LET obj == EncryptionKeysCollection(b)
          IN  /\ heap' = Allocate(heap, obj)
              /\ snapshots' = Append(snapshots, obj)
    /\ UNCHANGED <<seen, keysVars, clientVars>>

\* A refresh from a JSON text: a collection it returns is a new object.
SharedRefreshJson ==
    /\ Len(snapshots) < MaxColls
    /\ \E text \in JsonTexts :
          LET r == refresh_json(text)
          IN  /\ result' = r
              /\ heap' = IF r.kind = "return" THEN Allocate(heap, r.val) ELSE heap
              /\ snapshots' = IF r.kind = "return" THEN Append(snapshots, r.val)
                              ELSE snapshots
    /\ UNCHANGED <<seen, keysVars, pc, api, nonceHeld, req, wire, srv, decoded, built, sent>>

\* A reader looks a collection up and keeps the result: none of the methods
\* assigns to the object.
Read ==
    /\ seen = None
    /\ \E i \in DOMAIN heap, q \in SharedQueries :
          seen' = Some([obj |-> i, q |-> q, at |-> Len(heap), ret |-> Lookup(heap[i], q)])
    /\ UNCHANGED <<heap, snapshots, keysVars, clientVars>>

\* The reader is done with the result it kept.
Forget ==
    /\ seen # None
    /\ seen' = None
    /\ UNCHANGED <<heap, snapshots, keysVars, clientVars>>

NextShared ==
    \/ Construct
    \/ SharedRefreshJson
    \/ Read
    \/ Forget

\* ------------------------------------------------------------- specifications
\* Lookups on a collection built from any batch.
InitSpecKeys == InitKeys /\ InitClient /\ InitShared

SpecKeys == InitSpecKeys /\ [][NextKeys]_vars

\* Calls of refresh_keys and refresh_json on a client.
InitSpecClient == InitKeysIdle /\ InitClient /\ InitShared

SpecClient == InitSpecClient /\ [][NextClient]_vars

\* Readers of collections while further collections are built and refreshes run.
InitSpecShared == InitKeysIdle /\ InitClient /\ InitShared

SpecShared == InitSpecShared /\ [][NextShared]_vars

\* ------------------------------------------------------------- properties
IsOp(name) == Len(op) > 0 /\ op[1] = name

BatchIds == {batch[i].key_id : i \in DOMAIN batch}

\* The keys of site s active at now: site-scoped keys (site_id = s > 0).
ActiveOf(s, now) ==
    {i \in DOMAIN batch :
        /\ batch[i].site_id = s
        /\ s > 0
        /\ batch[i].activates <= now
        /\ now < batch[i].expires}

\* C1: get_active_site_key(s, now) returns a key of the batch with site_id = s > 0
\* that is active at now and activates latest among the active keys of site s;
\* it returns None exactly when no key of site s is active at now.
Thm_C1_ActiveSiteKey ==
    IsOp("get_active_site_key") =>
        LET s == op[2]
            now == op[3]
        IN  /\ ret.kind = "return"
            /\ (ret.val = None) <=> (ActiveOf(s, now) = {})
            /\ ret.val # None =>
                   \E i \in ActiveOf(s, now) :
                      /\ batch[i] = ret.val[1]
                      /\ \A j \in ActiveOf(s, now) :
                            batch[j].activates <= batch[i].activates

\* A later-activated key of the site has expired and an earlier-activated one is returned.
Wit_C1_Fallback ==
    /\ IsOp("get_active_site_key")
    /\ ret.val # None
    /\ \E j \in DOMAIN batch :
          /\ batch[j].site_id = op[2]
          /\ batch[j].activates > ret.val[1].activates
          /\ batch[j].activates <= op[3]
          /\ batch[j].expires <= op[3]

UnknownLookup ==
    \/ IsOp("get") /\ op[2] \notin BatchIds
    \/ IsOp("getitem") /\ op[2] \notin BatchIds
    \/ IsOp("contains") /\ op[2] \notin BatchIds
    \/ IsOp("get_active_site_key") /\ \A i \in DOMAIN batch : batch[i].site_id # op[2]

\* C5 as stated: every lookup of an unknown key id (get, indexing, membership)
\* or of a site without keys returns and never raises.
Orig_C5_NeverRaises == UnknownLookup => ret.kind = "return"

\* C5 amended: get returns None, the membership test False and
\* get_active_site_key None for an unknown id or a site without keys;
\* indexing collection[key_id] with an unknown id raises KeyError.
Thm_C5_UnknownLookups ==
    UnknownLookup =>
        /\ IsOp("get") => ret = Return(None)
        /\ IsOp("contains") => ret = Return(FALSE)
        /\ IsOp("get_active_site_key") => ret = Return(None)
        /\ IsOp("getitem") => ret = Raise("KeyError")

Wit_C5_UnknownId ==
    /\ batch # <<>>
    /\ IsOp("getitem")
    /\ op[2] \notin BatchIds
    /\ ret = Raise("KeyError")

\* C6: valid(now) is true iff the batch is non-empty and now is before the
\* greatest expires of all its keys, site-scoped or not.
Thm_C6_Valid ==
    IsOp("valid") =>
        ret = Return(/\ batch # <<>>
                     /\ \E i \in DOMAIN batch :
                           /\ \A j \in DOMAIN batch : batch[j].expires <= batch[i].expires
                           /\ op[2] < batch[i].expires)

\* The collection is valid only thanks to a later key that is not site-scoped.
Wit_C6_NonSiteKeyLatest ==
    /\ IsOp("valid")
    /\ ret = Return(TRUE)
    /\ Len(batch) > 1
    /\ batch[Len(batch)].site_id <= 0
    /\ \A i \in 1..(Len(batch) - 1) : batch[i].expires <= op[2]

\* The last record of the batch that carries the key id of record i.
LastWithId(i) ==
    CHOOSE j \in DOMAIN batch :
        /\ batch[j].key_id = batch[i].key_id
        /\ \A k \in DOMAIN batch : batch[k].key_id = batch[i].key_id => k <= j

\* C7: no key with site_id <= 0 is returned by get_active_site_key, whatever
\* site id and instant are queried; its key id stays in the id index, and
\* get and indexing return it when it is the record the id index holds.
Thm_C7_NonSiteKeys ==
    ret # NoCall =>
    \A i \in DOMAIN batch :
        batch[i].site_id <= 0 =>
            /\ IsOp("get_active_site_key") => ret.val # Some(batch[i])
            /\ IsOp("contains") /\ op[2] = batch[i].key_id => ret = Return(TRUE)
            /\ IsOp("get") /\ op[2] = batch[i].key_id /\ LastWithId(i) = i =>
                   ret = Return(Some(batch[i]))
            /\ IsOp("getitem") /\ op[2] = batch[i].key_id /\ LastWithId(i) = i =>
                   ret = Return(batch[i])

\* A key of site 0 is active and its own site id is queried.
Wit_C7_OwnSiteQueried ==
    /\ IsOp("get_active_site_key")
    /\ op[2] <= 0
    /\ \E i \in DOMAIN batch : batch[i].site_id = op[2] /\ is_active(batch[i], op[3])
    /\ ret = Return(None)

RECURSIVE SumLens(_, _)
SumLens(f, S) ==
    IF S = {} THEN 0
    ELSE LET x == CHOOSE y \in S : TRUE
         IN  Len(f[x]) + SumLens(f, S \ {x})

\* C10: the key get_active_site_key returns is the key get returns for its
\* key id, and the site buckets hold no more keys than the collection has.
Orig_C10_IndexesAgree ==
    /\ IsOp("get_active_site_key") /\ ret.val # None =>
           get(coll, ret.val[1].key_id, None) = Return(ret.val)
    /\ SumLens(coll._keys_by_site, DOMAIN coll._keys_by_site) <= len(coll).val

\* The response was encrypted under the client's secret by a service.
Decrypts == srv.kind = "server" /\ srv.key = ClientSecret

\* C2: a response that decrypts under the client's secret and carries another
\* nonce than the one of the request ends in the nonce-mismatch error and gives
\* the caller nothing of the payload; with the nonce of the request,
\* _parse_v2_response returns exactly the bytes after the first sixteen.
Thm_C2_NonceBinding ==
    pc = "done" /\ api = "refresh_keys" /\ Decrypts =>
        IF srv.nonce # nonceHeld
        THEN /\ decoded = Raise("ValueError(nonce mismatch)")
             /\ result = decoded
        ELSE decoded = Return(srv.payload)

Wit_C2_OtherNonce ==
    /\ pc = "done"
    /\ Decrypts
    /\ srv.nonce # nonceHeld
    /\ srv.payload = <<1>>
    /\ decoded.kind = "raise"

\* C3 as stated: the bytes of the request, decoded with the nonce of the same
\* request under the same secret, decode without error.
Orig_C3_RoundTrip ==
    pc = "done" /\ srv.kind = "reflect" => decoded.kind = "return"

\* C3 amended: the bytes of the request without the version marker, decoded
\* with the nonce of the same request under the same secret, decode without
\* error to a plaintext whose bytes [8:16) are that nonce.
Thm_C3_RoundTripStripped ==
    pc = "done" /\ srv.kind = "stripped" =>
        /\ decoded = Return(<<>>)
        /\ Slice(decrypt_gcm(B64Bytes(wire), ClientSecret).val, 8, 16) = nonceHeld

Wit_C3_Stripped ==
    /\ pc = "done"
    /\ srv.kind = "stripped"
    /\ decoded.kind = "return"
    /\ nonceHeld # ToBytes(0, 8)

WellFormedTexts == {<<d>> : d \in WellFormedDocs}

WellFormedResponse ==
    \/ api = "refresh_keys" /\ Decrypts /\ srv.nonce = nonceHeld
                            /\ srv.payload \in WellFormedTexts
    \/ api = "refresh_json" /\ srv.payload \in WellFormedTexts

\* C4: on a well-formed response, refresh_keys and refresh_json return a
\* collection with exactly one key per record, each retrievable by its id
\* with the record's site id (default -1), activates, expires and secret.
Orig_C4_RefreshReturnsKeys ==
    pc = "done" /\ WellFormedResponse =>
        /\ result.kind = "return"
        /\ LET records == Docs[srv.payload[1]].body.keys
           IN  /\ len(result.val) = Return(Len(records))
               /\ \A i \in DOMAIN records :
                     LET r == records[i]
                     IN  get(result.val, r.id, None) =
                            Return(Some(EncryptionKey(
                                r.id,
                                IF "site_id" \in DOMAIN r THEN r.site_id ELSE -1,
                                r.created, r.activates, r.expires,
                                B64Bytes(r.secret))))

\* The response cannot be decrypted, echoes another nonce or holds a key record
\* without a required field.
DecryptionFails ==
    srv.kind \in {"reflect", "garbage"} \/ (srv.kind = "server" /\ srv.key # ClientSecret)

NonceDiffers == Decrypts /\ srv.nonce # nonceHeld

RecordLacksField ==
    /\ Decrypts
    /\ srv.nonce = nonceHeld
    /\ Len(srv.payload) = 1
    /\ srv.payload[1] \in DOMAIN Docs
    /\ "body" \in DOMAIN Docs[srv.payload[1]]
    /\ "keys" \in DOMAIN Docs[srv.payload[1]].body
    /\ \E i \in DOMAIN Docs[srv.payload[1]].body.keys :
          \E f \in RequiredFields : f \notin DOMAIN Docs[srv.payload[1]].body.keys[i]

\* C9: a call of refresh_keys builds and sends one request; when the response
\* does not decrypt, echoes another nonce or holds a record without a required
\* field, the call ends with the error, returns no collection and sends nothing
\* more.
Thm_C9_OneRequestNoRetry ==
    /\ built <= 1
    /\ sent <= 1
    /\ api = "refresh_keys" => built = 1 /\ sent = 1
    /\ pc = "done" /\ api = "refresh_keys" =>
          /\ DecryptionFails => result \in {Raise("DecryptError"), Raise("binascii.Error")}
          /\ NonceDiffers => result = Raise("ValueError(nonce mismatch)")
          /\ RecordLacksField => result.kind = "raise"

Wit_C9_ErrorReported ==
    /\ pc = "done"
    /\ api = "refresh_keys"
    /\ RecordLacksField
    /\ result = Raise("KeyError")
    /\ sent = 1

====
